---- MODULE Spec2Model ----
(***************************************************************************)
(* Model of generate_csv_from_db.py: raw list and item rows are            *)
(* normalized, grouped by borrower, lists above chunk_size are split into  *)
(* chunk lists with freshly allocated ids, and the per-borrower CSV files  *)
(* are written one after the other.                                        *)
(*                                                                         *)
(* Python values that may be None, "" or an int are records [t, v]:        *)
(*   None = [t |-> "none"], "" = [t |-> "str"], the int n = [t |-> "int",  *)
(*   v |-> n].  A canonical timestamp text is its rank in lexical order,   *)
(*   0 being the empty string.  A name is [base, sfx, pad]: the text, the  *)
(*   " (n)" suffixes appended to it, and whether it carries surrounding    *)
(*   whitespace.                                                           *)
(***************************************************************************)
EXTENDS Integers, Sequences, FiniteSets, TLC

\* ---------------------------------------------------------------- bounds
MaxLists == 2
MaxItems == 2
MaxChunk == 2
MaxSplitItems == 3

\* ---------------------------------------------------------------- values
None == [t |-> "none", v |-> 0]
EmptyStr == [t |-> "str", v |-> 0]
I(n) == [t |-> "int", v |-> n]

IsInt(x) == x.t = "int"

\* Python truthiness of None, "" and ints, and the idiom `x or ""`.
Falsy(x) == x.t = "none" \/ x.t = "str" \/ (x.t = "int" /\ x.v = 0)
OrEmpty(x) == IF Falsy(x) THEN EmptyStr ELSE x

\* dict.get(key): None when the key is missing.
Get(r, k) == IF k \in DOMAIN r THEN r[k] ELSE None

Min(a, b) == IF a <= b THEN a ELSE b

RECURSIVE SeqMax(_)
SeqMax(s) ==
    IF Len(s) = 1 THEN s[1]
    ELSE LET m == SeqMax(Tail(s)) IN IF s[1] >= m THEN s[1] ELSE m

RECURSIVE SelectIdx(_, _, _)
\* the indices i of 1..n with P[i], ascending
SelectIdx(P, i, n) ==
    IF i > n THEN <<>>
    ELSE (IF P[i] THEN <<i>> ELSE <<>>) \o SelectIdx(P, i + 1, n)

\* ---------------------------------------------------------------- inputs
RawListIds == {I(-1), I(0), I(1)}
RawOwners == {I(0), I(1)}
RawNames == {[base |-> "A", sfx |-> <<>>, pad |-> FALSE],
             [base |-> "B", sfx |-> <<>>, pad |-> TRUE]}
RawDates == {None, I(1)}
StartIds == {None, I(1)}

RawListRows == [list_id : RawListIds, borrower_id : RawOwners, name : RawNames]

\* An item row of the two SELECTs has no borrower_id column; a row handed
\* over by another caller may have one.  bib_id is filled in by position.
RawItemShapes ==
    [list_id : {I(1)}, date_added : RawDates]
    \cup [list_id : {None, EmptyStr}, date_added : {None}]
    \cup [list_id : {None}, date_added : {None}, borrower_id : {I(1)}]

SeqsUpTo(S, n) == UNION {[1..k -> S] : k \in 1..n}

WithBib(shape, i) ==
    [k \in DOMAIN shape \cup {"bib_id"} |->
        IF k = "bib_id" THEN I(i) ELSE shape[k]]

\* ---------------------------------------------------------------- normalization
to_int_or_zero(x) == IF IsInt(x) THEN x ELSE I(0)

Strip(name) == [name EXCEPT !.pad = FALSE]

\* None and blank text give ""; a canonical timestamp formats back to itself.
normalize_datetime(x) == IF IsInt(x) THEN x.v ELSE 0

ToStr(x) == IF x.t = "none" THEN EmptyStr ELSE [t |-> "text", v |-> x.v]

normalize_list_row(r) ==
    [list_id |-> to_int_or_zero(Get(r, "list_id")),
     borrower_id |-> to_int_or_zero(Get(r, "borrower_id")),
     name |-> Strip(r.name)]

normalize_item_row(r) ==
    [list_id |-> IF Get(r, "list_id") # None
                 THEN to_int_or_zero(Get(r, "list_id")) ELSE EmptyStr,
     bib_id |-> ToStr(Get(r, "bib_id")),
     date_added |-> normalize_datetime(Get(r, "date_added"))]

\* The orders in which the worker processes of a pool can finish n rows.
Orders(n) == Permutations(1..n)

InOrder(o) == \A i \in 1..Len(o) : o[i] = i

\* the results as the workers deliver them: row order[j] is the j-th to finish
ListCompletions(rows, order) ==
    [j \in 1..Len(order) |-> [idx |-> order[j], res |-> normalize_list_row(rows[order[j]])]]

ItemCompletions(rows, order) ==
    [j \in 1..Len(order) |-> [idx |-> order[j], res |-> normalize_item_row(rows[order[j]])]]

\* results taken as they arrive, each put where the next one is expected
as_completed_map(n, done) == [j \in 1..n |-> done[j].res]

\* list(executor.map(fn, rows)): the i-th result is that of the i-th row,
\* whenever its worker finished
executor_map(n, done) ==
    [i \in 1..n |-> done[CHOOSE j \in 1..Len(done) : done[j].idx = i].res]

parallel_normalize_lists_rows(rows, order) ==
    executor_map(Len(rows), ListCompletions(rows, order))

parallel_normalize_item_rows(rows, order) ==
    executor_map(Len(rows), ItemCompletions(rows, order))


\* ---------------------------------------------------------------- state
VARIABLES
    lists_raw, items_raw,     \* the rows fetched from the database
    chunk_size, start_id,     \* --chunk-size and --start-id
    pc,                       \* position of the run
    lists_in, items_in,       \* normalized rows
    user_order, lists_by_user,\* borrowers in insertion order, their lists
    items_by_list,            \* list_id -> items
    items_no_list_by_user,    \* borrower -> items without a list
    next_id,                  \* the id allocator
    ui,                       \* position in user_order of the current borrower
    lists_out, new_lists_out, items_out,  \* the current borrower's output
    fi, fopen,                \* file of the current borrower being written
    dirs, files,              \* the output tree
    total_chunks, user_count,
    hist,                     \* history: every list emitted, with its origin
    overtaken                 \* history: did a later row finish before an earlier
                              \* one, in the lists pool and in the items pool

vars == <<lists_raw, items_raw, chunk_size, start_id, pc, lists_in, items_in,
          user_order, lists_by_user, items_by_list, items_no_list_by_user,
          next_id, ui, lists_out, new_lists_out, items_out, fi, fopen,
          dirs, files, total_chunks, user_count, hist, overtaken>>

inputs == <<lists_raw, items_raw, chunk_size, start_id>>
groups == <<user_order, lists_by_user, items_no_list_by_user>>
outs == <<lists_out, new_lists_out, items_out>>

InitWith(ListSeqs, ItemSeqs) ==
    /\ lists_raw \in ListSeqs
    /\ \E shapes \in ItemSeqs :
           items_raw = [i \in 1..Len(shapes) |-> WithBib(shapes[i], i)]
    /\ chunk_size \in 1..MaxChunk
    /\ start_id \in StartIds
    /\ pc = "normalize"
    /\ lists_in = <<>> /\ items_in = <<>>
    /\ user_order = <<>> /\ lists_by_user = <<>>
    /\ items_by_list = <<>> /\ items_no_list_by_user = <<>>
    /\ next_id = 0 /\ ui = 0
    /\ lists_out = <<>> /\ new_lists_out = <<>> /\ items_out = <<>>
    /\ fi = 0 /\ fopen = FALSE
    /\ dirs = {} /\ files = <<>>
    /\ total_chunks = 0 /\ user_count = 0
    /\ hist = <<>>
    /\ overtaken = [lists |-> FALSE, items |-> FALSE]

Init == InitWith(SeqsUpTo(RawListRows, MaxLists), SeqsUpTo(RawItemShapes, MaxItems))

\* main: both row sequences are normalized before anything is grouped; the
\* workers of each pool finish their rows in any order.
Normalize ==
    /\ pc = "normalize"
    /\ LET ls == {[rows |-> parallel_normalize_lists_rows(lists_raw, lo),
                   late |-> ~InOrder(lo)] : lo \in Orders(Len(lists_raw))}
           is == {[rows |-> parallel_normalize_item_rows(items_raw, io),
                   late |-> ~InOrder(io)] : io \in Orders(Len(items_raw))}
       IN  \E l \in ls, i \in is :
              /\ lists_in' = l.rows
              /\ items_in' = i.rows
              /\ overtaken' = [lists |-> l.late, items |-> i.late]
    /\ pc' = "group"
    /\ UNCHANGED <<inputs, groups, items_by_list, next_id, ui, outs, fi, fopen,
                   dirs, files, total_chunks, user_count, hist>>

\* ---------------------------------------------------------------- grouping
\* dict.setdefault(k, []).append(x) over a sequence, keeping first-seen key order
RECURSIVE KeyOrder(_, _)
KeyOrder(keys, seen) ==
    IF keys = <<>> THEN <<>>
    ELSE IF Head(keys) \in seen THEN KeyOrder(Tail(keys), seen)
    ELSE <<Head(keys)>> \o KeyOrder(Tail(keys), seen \cup {Head(keys)})

SeqRange(s) == {s[i] : i \in 1..Len(s)}

Pick(s, idx) == [j \in 1..Len(idx) |-> s[idx[j]]]

HasOwner(rows) == [i \in 1..Len(rows) |-> Get(rows[i], "borrower_id") # None]

IsOrphan(it) ==
    LET lid == Get(it, "list_id") IN lid = EmptyStr \/ lid = None \/ lid = I(0)

GroupListsByUser(ls) ==
    LET kept == Pick(ls, SelectIdx(HasOwner(ls), 1, Len(ls)))
        owners == KeyOrder([i \in 1..Len(kept) |-> kept[i].borrower_id], {})
    IN  [order |-> owners,
         map |-> [b \in SeqRange(owners) |->
                    Pick(kept, SelectIdx([i \in 1..Len(kept) |-> kept[i].borrower_id = b],
                                         1, Len(kept)))]]

GroupItemsByList(its) ==
    LET att == Pick(its, SelectIdx([i \in 1..Len(its) |-> ~IsOrphan(its[i])], 1, Len(its)))
    IN  [l \in {att[i].list_id : i \in 1..Len(att)} |->
            Pick(att, SelectIdx([i \in 1..Len(att) |-> att[i].list_id = l], 1, Len(att)))]

GroupOrphansByUser(its) ==
    LET orp == Pick(its, SelectIdx([i \in 1..Len(its) |->
                        IsOrphan(its[i]) /\ Get(its[i], "borrower_id") # None], 1, Len(its)))
    IN  [b \in {orp[i].borrower_id : i \in 1..Len(orp)} |->
            Pick(orp, SelectIdx([i \in 1..Len(orp) |-> orp[i].borrower_id = b], 1, Len(orp)))]

DefaultStartId == 1000000

SeedNextId(ls, sid) ==
    LET isint == [i \in 1..Len(ls) |-> IsInt(Get(ls[i], "list_id"))]
        idx == SelectIdx(isint, 1, Len(ls))
        existing_ids == [j \in 1..Len(idx) |-> ls[idx[j]].list_id.v]
        max_id == IF existing_ids # <<>> THEN SeqMax(existing_ids) ELSE 0
    IN  IF sid # None THEN sid.v
        ELSE IF max_id # 0 THEN max_id + 1 ELSE DefaultStartId

Group ==
    /\ pc = "group"
    /\ LET g == GroupListsByUser(lists_in) IN
          /\ user_order' = g.order
          /\ lists_by_user' = g.map
    /\ items_by_list' = GroupItemsByList(items_in)
    /\ items_no_list_by_user' = GroupOrphansByUser(items_in)
    /\ next_id' = SeedNextId(lists_in, start_id)
    /\ ui' = 1
    /\ pc' = "user"
    /\ overtaken' = [lists |-> FALSE, items |-> FALSE]  \* main's pools are closed
    /\ UNCHANGED <<inputs, lists_in, items_in, outs, fi, fopen, dirs, files,
                   total_chunks, user_count, hist>>

\* ---------------------------------------------------------------- splitting
\* key=lambda x: x.get("date_added") or "": the canonical text, "" lowest
DateKey(it) == it.date_added

\* list.sort is stable: x goes behind every element whose key is not larger
RECURSIVE InsertByDate(_, _)
InsertByDate(sorted, x) ==
    IF sorted = <<>> THEN <<x>>
    ELSE IF DateKey(x) < DateKey(Head(sorted)) THEN <<x>> \o sorted
    ELSE <<Head(sorted)>> \o InsertByDate(Tail(sorted), x)

RECURSIVE SortByDate(_)
SortByDate(s) ==
    IF s = <<>> THEN <<>>
    ELSE InsertByDate(SortByDate(SubSeq(s, 1, Len(s) - 1)), s[Len(s)])

\* chunked with the short last chunk forgotten
chunked_drop_tail(s, size) ==
    [c \in 1..(Len(s) \div size) |->
        SubSeq(s, (c - 1) * size + 1, Min(c * size, Len(s)))]

\* for i in range(0, len(seq), size): yield seq[i:i + size]
chunked(s, size) ==
    [c \in 1..((Len(s) + size - 1) \div size) |->
        SubSeq(s, (c - 1) * size + 1, Min(c * size, Len(s)))]

\* f"{base_name} ({name_count})"
Suffixed(name, n) == [name EXCEPT !.sfx = Append(@, n)]

NameCount(counts, name) == IF name \in DOMAIN counts THEN counts[name] ELSE 1

SetKey(f, k, val) == [x \in DOMAIN f \cup {k} |-> IF x = k THEN val ELSE f[x]]

\* one chunk of a split list: lines 617-643
RECURSIVE SplitChunks(_, _, _, _, _, _)
SplitChunks(acc, base, chunks, c, owner, k) ==
    IF c > Len(chunks) THEN acc
    ELSE
        LET new_lid == acc.next_id
            base_name == base.name
            name_count == NameCount(acc.counts, base_name)
            new_base == [base EXCEPT !.list_id = I(new_lid),
                                     !.name = Suffixed(base_name, name_count)]
        IN  SplitChunks(
                [acc EXCEPT
                    !.next_id = new_lid + 1,
                    !.counts = SetKey(acc.counts, base_name, name_count + 1),
                    !.new_lists_out = Append(@, new_base),
                    !.items_out = Append(@, [lid |-> I(new_lid), items |-> chunks[c]]),
                    !.hist = Append(@, [owner |-> owner, k |-> k, kind |-> "chunk",
                                        list |-> new_base, items |-> chunks[c]])],
                base, chunks, c + 1, owner, k)

\* the loop over one borrower's lists: lines 599-643
RECURSIVE SplitLists(_, _, _, _, _)
SplitLists(acc, user_lists, k, owner, size) ==
    IF k > Len(user_lists) THEN acc
    ELSE
        LET base == user_lists[k]
            lid == base.list_id
            known == lid \in DOMAIN acc.ibl
            assoc == IF known THEN SortByDate(acc.ibl[lid]) ELSE <<>>
            acc1 == IF known THEN [acc EXCEPT !.ibl[lid] = assoc] ELSE acc
        IN  IF Len(assoc) <= size
            THEN SplitLists(
                    [acc1 EXCEPT
                        !.lists_out = Append(@, base),
                        !.items_out = Append(@, [lid |-> lid, items |-> assoc]),
                        !.hist = Append(@, [owner |-> owner, k |-> k, kind |-> "primary",
                                            list |-> base, items |-> assoc])],
                    user_lists, k + 1, owner, size)
            ELSE SplitLists(SplitChunks(acc1, base, chunked(assoc, size), 1, owner, k),
                            user_lists, k + 1, owner, size)

CurUser == user_order[ui]

ProcessUser ==
    /\ pc = "user"
    /\ ui <= Len(user_order)
    /\ LET acc0 == [lists_out |-> <<>>, new_lists_out |-> <<>>, items_out |-> <<>>,
                    counts |-> <<>>, next_id |-> next_id, ibl |-> items_by_list,
                    hist |-> hist]
           acc == SplitLists(acc0, lists_by_user[CurUser], 1, CurUser, chunk_size)
       IN  /\ lists_out' = acc.lists_out
           /\ new_lists_out' = acc.new_lists_out
           /\ items_out' = acc.items_out
           /\ next_id' = acc.next_id
           /\ items_by_list' = acc.ibl
           /\ hist' = acc.hist
           /\ IF acc.lists_out = <<>> /\ acc.new_lists_out = <<>>
              THEN /\ ui' = ui + 1 /\ pc' = "user" /\ fi' = 0
              ELSE /\ ui' = ui /\ pc' = "write" /\ fi' = 1
    /\ user_count' = user_count + 1
    /\ dirs' = dirs \cup {CurUser}
    /\ UNCHANGED <<inputs, lists_in, items_in, groups, fopen, files, total_chunks,
                   overtaken>>

\* ---------------------------------------------------------------- writing
ListRow(e) ==
    [list_id |-> OrEmpty(Get(e, "list_id")),
     borrower_id |-> OrEmpty(Get(e, "borrower_id")),
     name |-> e.name]

ItemRow(it) ==
    [list_id |-> OrEmpty(Get(it, "list_id")),
     bib_id |-> OrEmpty(Get(it, "bib_id")),
     date_added |-> it.date_added]

ListRows(s) == [i \in 1..Len(s) |-> ListRow(s[i])]

ItemRows(s) == [i \in 1..Len(s) |-> ItemRow(s[i])]

NoListChunks ==
    IF CurUser \in DOMAIN items_no_list_by_user
    THEN chunked(items_no_list_by_user[CurUser], chunk_size) ELSE <<>>

\* the files written for the current borrower, in the order of lines 651-771
WriteQueue ==
    <<[path |-> [dir |-> CurUser, kind |-> "lists", n |-> I(1)],
       rows |-> ListRows(lists_out)],
      [path |-> [dir |-> CurUser, kind |-> "new-lists", n |-> I(1)],
       rows |-> ListRows(new_lists_out)]>>
    \o [i \in 1..Len(items_out) |->
          [path |-> [dir |-> CurUser, kind |-> "list_items", n |-> items_out[i].lid],
           rows |-> ItemRows(items_out[i].items)]]
    \o [i \in 1..Len(NoListChunks) |->
          [path |-> [dir |-> CurUser, kind |-> "no_lists", n |-> I(i)],
           rows |-> ItemRows(NoListChunks[i])]]

\* open(path, "w"): the file exists, empty, from here on
OpenFile ==
    /\ pc = "write" /\ ~fopen
    /\ files' = SetKey(files, WriteQueue[fi].path,
                       [header |-> FALSE, rows |-> <<>>, complete |-> FALSE])
    /\ fopen' = TRUE
    /\ UNCHANGED <<inputs, pc, lists_in, items_in, groups, items_by_list, next_id,
                   ui, outs, fi, dirs, total_chunks, user_count, hist, overtaken>>

\* writerow for the header and every row, then the with-block closes the file
WriteAndClose ==
    /\ pc = "write" /\ fopen
    /\ files' = [files EXCEPT ![WriteQueue[fi].path] =
                    [header |-> TRUE, rows |-> WriteQueue[fi].rows, complete |-> TRUE]]
    /\ fopen' = FALSE
    /\ IF fi < Len(WriteQueue)
       THEN /\ fi' = fi + 1
            /\ UNCHANGED <<pc, ui, total_chunks>>
       ELSE /\ fi' = 0
            /\ pc' = "user"
            /\ ui' = ui + 1
            /\ total_chunks' = total_chunks + Len(NoListChunks) + Len(items_out)
    /\ UNCHANGED <<inputs, lists_in, items_in, groups, items_by_list, next_id,
                   outs, dirs, user_count, hist, overtaken>>

Finish ==
    /\ pc = "user"
    /\ ui > Len(user_order)
    /\ pc' = "done"
    /\ UNCHANGED <<inputs, lists_in, items_in, groups, items_by_list, next_id,
                   ui, outs, fi, fopen, dirs, files, total_chunks, user_count, hist,
                   overtaken>>

\* KeyboardInterrupt (or a kill) anywhere in the run: a file being written
\* keeps whatever part of its content had reached it.
Interrupt ==
    /\ pc \in {"normalize", "group", "user", "write"}
    /\ pc' = "interrupted"
    /\ IF pc = "write" /\ fopen
       THEN \E n \in 0..Len(WriteQueue[fi].rows) :
               files' = [files EXCEPT ![WriteQueue[fi].path] =
                            [header |-> n > 0,
                             rows |-> SubSeq(WriteQueue[fi].rows, 1, n - 1),
                             complete |-> FALSE]]
       ELSE UNCHANGED files
    /\ UNCHANGED <<inputs, lists_in, items_in, groups, items_by_list, next_id,
                   ui, outs, fi, fopen, dirs, total_chunks, user_count, hist, overtaken>>

Next ==
    \/ Normalize
    \/ Group
    \/ ProcessUser
    \/ OpenFile
    \/ WriteAndClose
    \/ Finish
    \/ Interrupt

Spec == Init /\ [][Next]_vars

\* A second family of inputs: longer item sequences with more timestamps,
\* over lists of one borrower, so that lists split into full and short chunks.
SplitListRows == [list_id : {I(0), I(1)}, borrower_id : {I(1)},
                  name : {[base |-> "A", sfx |-> <<>>, pad |-> FALSE]}]

SplitItemShapes == [list_id : {I(1)}, date_added : {None, I(1), I(2)}]

InitSplit == InitWith(SeqsUpTo(SplitListRows, MaxLists),
                      SeqsUpTo(SplitItemShapes, MaxSplitItems))

SpecSplit == InitSplit /\ [][Next]_vars

\* A third family of inputs: rows as the database hands them over, with
\* columns that are NULL or padded, so that normalization changes them.
NullableListRows == [list_id : {I(1)}, borrower_id : {None, I(1)}, name : RawNames]

NullableItemShapes == [list_id : {None, I(1)}, date_added : {None}]

InitRows == InitWith(SeqsUpTo(NullableListRows, MaxLists),
                     SeqsUpTo(NullableItemShapes, MaxItems))

SpecRows == InitRows /\ [][Next]_vars

\* ---------------------------------------------------------------- claims
Processed == pc \in {"user", "write", "done"}

Sources == {<<hist[i].owner, hist[i].k>> : i \in 1..Len(hist)}

\* the entries of hist that came from the k-th list of borrower o, in order
HistOf(o, k) == SelectSeq(hist, LAMBDA e : e.owner = o /\ e.k = k)

ChunksOf(o, k) == SelectSeq(hist, LAMBDA e : e.owner = o /\ e.k = k /\ e.kind = "chunk")

RECURSIVE Concat(_)
Concat(ss) == IF ss = <<>> THEN <<>> ELSE Head(ss) \o Concat(Tail(ss))

ItemsOf(entries) == Concat([i \in 1..Len(entries) |-> entries[i].items])

\* position of an item in the input: bib_id was filled in by position
InputPos(it) == it.bib_id.v

\* the items of the input associated with list id lid, as a set of positions
AssocPos(lid) ==
    {i \in 1..Len(items_in) : items_in[i].list_id = lid /\ ~IsOrphan(items_in[i])}

SortedStable(s) ==
    \A i, j \in 1..Len(s) :
        i < j => \/ DateKey(s[i]) < DateKey(s[j])
                 \/ DateKey(s[i]) = DateKey(s[j]) /\ InputPos(s[i]) < InputPos(s[j])

\* C1: for every processed list with more than chunk_size associated items,
\* its chunks concatenated in order are exactly its associated items (each
\* once), ordered by date_added ascending with the empty date first and ties
\* in input order; every chunk has at most chunk_size items and every chunk
\* but the last exactly chunk_size.
C1_ChunksPartitionSorted ==
    \A src \in Sources :
        LET o == src[1]
            k == src[2]
            base == lists_by_user[o][k]
            assoc == AssocPos(base.list_id)
            ch == HistOf(o, k)
            all == ItemsOf(ch)
        IN  Cardinality(assoc) > chunk_size =>
                /\ \A c \in 1..Len(ch) : ch[c].kind = "chunk"
                /\ Len(all) = Cardinality(assoc)
                /\ {InputPos(all[i]) : i \in 1..Len(all)} = assoc
                /\ \A i \in 1..Len(all) : all[i] = items_in[InputPos(all[i])]
                /\ SortedStable(all)
                /\ \A c \in 1..Len(ch) : Len(ch[c].items) <= chunk_size
                /\ \A c \in 1..(Len(ch) - 1) : Len(ch[c].items) = chunk_size
                /\ Len(ch) >= 1 /\ Len(ch[Len(ch)].items) >= 1

\* a list was split into a full chunk and a shorter last one, and sorting
\* moved an item: a later input row with an earlier date, next to a tie
C1_Witness ==
    /\ pc = "done"
    /\ \E src \in Sources :
        LET ch == ChunksOf(src[1], src[2])
            all == ItemsOf(ch)
        IN  /\ Len(ch) = 2
            /\ Len(ch[1].items) = chunk_size
            /\ Len(ch[2].items) < chunk_size
            /\ InputPos(all[1]) > InputPos(all[2])
            /\ DateKey(all[2]) = DateKey(all[3])

\* C2: the list ids of all emitted list records, primary and chunk lists of
\* every borrower together, are pairwise distinct.
C2_EmittedIdsDistinct ==
    \A i, j \in 1..Len(hist) :
        i # j => hist[i].list.list_id # hist[j].list.list_id

InputIds == {lists_in[i].list_id : i \in 1..Len(lists_in)}

\* C3: no id allocated to a chunk list is the list_id of an input list,
\* with the seed derived from the input or given by start_id.
C3_AllocatedIdsFresh ==
    \A i \in 1..Len(hist) :
        hist[i].kind = "chunk" => hist[i].list.list_id \notin InputIds

FilePaths == DOMAIN files

\* C4: in every borrower's finished lists_1.csv no two rows have equal names.
C4_PrimaryNamesDistinct ==
    \A p \in FilePaths :
        (p.kind = "lists" /\ files[p].complete) =>
            \A i, j \in 1..Len(files[p].rows) :
                i # j => files[p].rows[i].name # files[p].rows[j].name

\* the rows of the input without a list association whose borrower is o
OrphanPos(o) ==
    SelectIdx([i \in 1..Len(items_raw) |->
                  /\ Get(items_raw[i], "list_id") \in {None, EmptyStr, I(0)}
                  /\ Get(items_raw[i], "borrower_id") = o],
              1, Len(items_raw))

ItemOwners ==
    {Get(items_raw[i], "borrower_id") : i \in 1..Len(items_raw)} \ {None}

\* C5: after the run every borrower's items without a list are in the files
\* no_lists_1.csv, no_lists_2.csv, ... of that borrower's directory, in input
\* order, cut into consecutive chunks of at most chunk_size.
C5_OrphansEmitted ==
    pc = "done" =>
        \A o \in ItemOwners :
            LET pos == OrphanPos(o)
                want == (Len(pos) + chunk_size - 1) \div chunk_size
            IN  \A n \in 1..want :
                    LET p == [dir |-> o, kind |-> "no_lists", n |-> I(n)]
                        from == (n - 1) * chunk_size + 1
                        upto == Min(n * chunk_size, Len(pos))
                    IN  /\ p \in FilePaths
                        /\ files[p].complete
                        /\ [i \in 1..Len(files[p].rows) |-> files[p].rows[i].bib_id.v]
                             = SubSeq(pos, from, upto)

\* C6: every item row of a finished list_items_<L>.csv carries list_id = L.
C6_ItemRowsCarryFileId ==
    \A p \in FilePaths :
        (p.kind = "list_items" /\ files[p].complete) =>
            \A i \in 1..Len(files[p].rows) : files[p].rows[i].list_id = p.n

\* the lists of borrower o that were split, as positions in lists_by_user[o]
SplitOf(o) == {k \in 1..Len(lists_by_user[o]) : ChunksOf(o, k) # <<>>}

ChunksOfName(o, name) ==
    SelectSeq(hist, LAMBDA e : /\ e.owner = o /\ e.kind = "chunk"
                               /\ lists_by_user[o][e.k].name = name)

\* the chunk lists of one borrower and one original name are numbered 1, 2, ...
C7_ChunkNamesNumbered ==
    \A o \in dirs :
        \A k \in SplitOf(o) :
            LET name == lists_by_user[o][k].name
                ch == ChunksOfName(o, name)
            IN  \A c \in 1..Len(ch) : ch[c].list.name = Suffixed(name, c)

\* the original of a split list is in neither lists_1.csv nor a list_items file
C7_OriginalAbsent ==
    pc = "done" =>
        \A o \in dirs :
            \A k \in SplitOf(o) :
                LET orig == lists_by_user[o][k].list_id
                    lp == [dir |-> o, kind |-> "lists", n |-> I(1)]
                IN  /\ [dir |-> o, kind |-> "list_items", n |-> orig] \notin FilePaths
                    /\ lp \in FilePaths =>
                         \A i \in 1..Len(files[lp].rows) :
                             files[lp].rows[i].list_id # OrEmpty(orig)

\* C7: chunk lists are named "<original name> (<n>)", n counted from 1 per
\* borrower and per original name across all split lists of that name, and
\* the original list is emitted neither in lists_1.csv nor as
\* list_items_<original id>.csv.
C7_ChunkNaming == C7_ChunkNamesNumbered /\ C7_OriginalAbsent

Unset(x) == x = None \/ x = EmptyStr

ListEntries(o, kind) == SelectSeq(hist, LAMBDA e : e.owner = o /\ e.kind = kind)

ListFileKind(kind) == IF kind = "lists" THEN "primary" ELSE "chunk"

\* C8: a list row shows an empty list_id or borrower_id only when the list's
\* value is unset; an id that is the integer 0 is shown as 0.
C8_EmptyOnlyWhenUnset ==
    \A p \in FilePaths :
        (p.kind \in {"lists", "new-lists"} /\ files[p].complete) =>
            LET es == ListEntries(p.dir, ListFileKind(p.kind))
            IN  \A i \in 1..Len(files[p].rows) :
                    /\ files[p].rows[i].list_id = EmptyStr => Unset(es[i].list.list_id)
                    /\ files[p].rows[i].borrower_id = EmptyStr
                         => Unset(es[i].list.borrower_id)

\* C9: after an interruption every file that exists is complete.
C9_NoPartialFile ==
    pc = "interrupted" => \A p \in FilePaths : files[p].complete

AllocatedIds ==
    LET ch == SelectSeq(hist, LAMBDA e : e.kind = "chunk")
    IN  [i \in 1..Len(ch) |-> ch[i].list.list_id.v]

PositiveInputIds == {x \in InputIds : IsInt(x) /\ x.v > 0}

ClaimedSeed ==
    IF start_id # None THEN start_id.v
    ELSE IF PositiveInputIds # {}
         THEN (CHOOSE x \in PositiveInputIds :
                  \A y \in PositiveInputIds : y.v <= x.v).v + 1
         ELSE 1000000

OwnerAbsent == {i \in 1..Len(lists_raw) : Get(lists_raw[i], "borrower_id") = None}

OwnersPresent ==
    {Get(lists_raw[i], "borrower_id") : i \in 1..Len(lists_raw) \ OwnerAbsent}

GroupedLists ==
    Concat([j \in 1..Len(user_order) |-> lists_by_user[user_order[j]]])

\* C11: a list row without an owner id is dropped: it is grouped under no
\* borrower, no directory is made for it and no list is emitted for it, and
\* the rows that have an owner are all grouped, in input order.
C11_OwnerlessListDropped ==
    Processed =>
        /\ GroupedLists = Pick(lists_in, SelectIdx([i \in 1..Len(lists_raw) |->
                                   i \notin OwnerAbsent], 1, Len(lists_raw)))
        /\ dirs \subseteq OwnersPresent
        /\ \A i \in 1..Len(hist) : hist[i].owner \in OwnersPresent

Normalized == lists_in # <<>>

\* C12: whatever the order in which the workers finish, the normalized lists
\* and items have the length of the input and their i-th element is the
\* normalization of the i-th input row.
C12_NormalizeKeepsOrder ==
    Normalized =>
        /\ Len(lists_in) = Len(lists_raw)
        /\ Len(items_in) = Len(items_raw)
        /\ \A i \in 1..Len(lists_raw) : lists_in[i] = normalize_list_row(lists_raw[i])
        /\ \A i \in 1..Len(items_raw) : items_in[i] = normalize_item_row(items_raw[i])

\* in both pools a later row finished first, and the rows that swapped
\* places in time normalize to different records
C12_Witness ==
    /\ pc = "group"
    /\ overtaken.lists /\ overtaken.items
    /\ Len(lists_in) >= 2 /\ lists_in[1] # lists_in[2]
    /\ Len(items_in) >= 2
    /\ [items_in[1] EXCEPT !.bib_id = EmptyStr] # [items_in[2] EXCEPT !.bib_id = EmptyStr]

====
